---- MODULE Spec2Model ----
(***************************************************************************)
(* Model of amethyst_assets/src/asset.rs: the Asset / ProcessableAsset /   *)
(* Format / SerializableFormat contracts, the default bodies of            *)
(* Format::import_simple and Format::import, the forwarding impls for      *)
(* Box<dyn Format<D>> and Box<dyn SerializableFormat<D>>, and FormatValue. *)
(*                                                                         *)
(* Format values live in a heap of cells.  A cell is a concrete format     *)
(* (its kind says which trait methods it overrides, opt is its             *)
(* configuration) or a box that owns the cell `inner`.  The program holds  *)
(* the cells in `roots`: it constructs a format, as a loader does at       *)
(* registration, boxes and clones it, as a loader does per load request,   *)
(* and calls name / import_simple / import on the values it holds; Data    *)
(* obtained from an import is handed to ProcessableAsset::process.         *)
(***************************************************************************)
EXTENDS Integers, Sequences, FiniteSets, TLC

\* ------------------------------------------------------------------ bounds
MaxRoots == 2
MaxCells == 4
MaxLen == 1
MaxOpt == 1
MaxCalls == 3

\* A cell address is <<arena, index>>: every format the program holds has an
\* arena of its own, in which the cells it owns are allocated.
Slots == 1..MaxRoots
Addr == Slots \X (1..MaxCells)
Null == <<0, 0>>
Bytes == UNION {[1..n -> {0, 1}] : n \in 0..MaxLen}
Opts == 0..MaxOpt
Names == {"player.obj", "missing.png"}

\* ------------------------------------------------------- Result and panics
\* A call ends with Ok(v), with Err(e), or in a panic, which is no value: it
\* passes through every caller and ends the program.
Ok(v) == [tag |-> "Ok", val |-> v]

Err(e) == [tag |-> "Err", err |-> e]

Panic(m) == [tag |-> "Panic", msg |-> m]

\* The message of unimplemented!(..) at line 64 (its backquotes left out).
UnimplementedMsg == "not implemented: You must implement either import_simple or import."

\* ResultExt::with_context(|_| ctx): the context becomes the error, the
\* original error its cause.  An Error is the chain of its categories, outermost first: the head is the
\* error's own category, the tail is its cause chain.
with_context(r, ctx) == IF r.tag = "Err" THEN Err(<<ctx>> \o r.err) ELSE r

ErrorSource == "Source"

\* ------------------------------------------------------------ byte-source
LoadErrors == {"NotFound", "Io"}

LoadOutcomes == {Ok(b) : b \in Bytes} \cup {Err(<<e>>) : e \in LoadErrors} \cup {Panic("load")}

\* The byte-sources of the model: a source answers r for the name n and knows
\* no other name.
Resolving(n, r) == [m \in Names |-> IF m = n THEN r ELSE Err(<<"NotFound">>)]

Sources == {Resolving(n, r) : n \in Names, r \in LoadOutcomes}

load(src, n) == src[n]

\* ------------------------------------------------------------ call records
\* A method returns its outcome together with the calls of source.load and of
\* import_simple it made, in order.
LoadEv(n) == [call |-> "load", recv |-> Null, name |-> n, bytes |-> <<>>]

SimpleEv(a, b) == [call |-> "import_simple", recv |-> a, name |-> "", bytes |-> b]

Ret(o, e) == [out |-> o, ev |-> e]

\* ------------------------------------------------------------- FormatValue
\* data_altered: a constructor that does not keep the Data.
data_altered(d) == [data |-> <<>>]

data(d) == [data |-> d]

\* --------------------------------------------------------- ProcessingState
Loaded(x) == [tag |-> "Loaded", val |-> x]

Loading(d) == [tag |-> "Loading", val |-> d]

\* process_loading: a process that defers instead of finishing.
process_loading(d) == Ok(Loading(d))

process(d) == Ok(Loaded(d))

\* ----------------------------------------------------------------- heap
Kinds == {"Simple", "Full", "Both", "Neither"}

FreeCell == [tag |-> "free", kind |-> "", opt |-> 0, inner |-> Null]

Concrete(k, o) == [tag |-> "concrete", kind |-> k, opt |-> o, inner |-> Null]

BoxCell(t, i) == [tag |-> t, kind |-> "", opt |-> 0, inner |-> i]

IsBox(c) == c.tag \in {"box", "sbox"}

Used(h) == {a \in Addr : h[a].tag # "free"}

FreeSlots(h) == {s \in Slots : \A a \in Used(h) : a[1] # s}

NewSlot(h) == CHOOSE s \in FreeSlots(h) : \A t \in FreeSlots(h) : s <= t

Alloc(h, s) == <<s, CHOOSE i \in 1..MaxCells : h[<<s, i>>].tag = "free" /\ \A j \in 1..(i - 1) : h[<<s, j>>].tag # "free">>

deref(h, a) == h[a].inner

RECURSIVE Cells(_, _)
Cells(h, a) == IF IsBox(h[a]) THEN {a} \cup Cells(h, deref(h, a)) ELSE {a}

RECURSIVE Innermost(_, _)
Innermost(h, a) == IF IsBox(h[a]) THEN Innermost(h, deref(h, a)) ELSE a

OverridesImportSimple(c) == c.tag = "concrete" /\ c.kind \in {"Simple", "Both"}

OverridesImport(c) == c.tag = "concrete" /\ c.kind \in {"Full", "Both"}

\* ------------------------------------------- implementations of the leaves
\* What the concrete formats supply.  name is the format's identifier.  An
\* overriding import_simple decodes the bytes under the format's options and
\* rejects the empty input.  An overriding import resolves the name itself and
\* never calls import_simple.  Clone copies the options.
Impl_name(c) == c.kind

Impl_import_simple(c, bytes) ==
    IF bytes = <<>> THEN Ret(Err(<<"Decode">>), <<>>) ELSE Ret(Ok(<<c.opt>> \o bytes), <<>>)

Impl_import(c, n, src) ==
    LET b == load(src, n)
    IN  IF b.tag = "Ok" THEN Ret(Ok(data(<<c.opt + 10>> \o b.val)), <<LoadEv(n)>>)
        ELSE Ret(b, <<LoadEv(n)>>)

\* ------------------------------------------------------------ trait Format
RECURSIVE name(_, _), import_simple(_, _, _), import(_, _, _, _)

\* Format_import_simple_err: a default body that returns an error value.
Format_import_simple_err(h, a, bytes) == Ret(Err(<<"Unimplemented">>), <<>>)

Format_import_simple(h, a, bytes) == Ret(Panic(UnimplementedMsg), <<>>)

\* Variants of the default import: one that puts the Source context on the
\* import_simple error too, one without the context on the load error, one
\* that goes on to import_simple after a failed load, one that loads again
\* after a failed load.
Format_import_wrapdecode(h, a, n, src) ==
    LET b == with_context(load(src, n), ErrorSource)
    IN  IF b.tag # "Ok" THEN Ret(b, <<LoadEv(n)>>)
        ELSE LET s == import_simple(h, a, b.val)
             IN  IF s.out.tag # "Ok" THEN Ret(with_context(s.out, ErrorSource), <<LoadEv(n)>> \o s.ev)
                 ELSE Ret(Ok(data(s.out.val)), <<LoadEv(n)>> \o s.ev)

Format_import_nocontext(h, a, n, src) ==
    LET b == load(src, n)
    IN  IF b.tag # "Ok" THEN Ret(b, <<LoadEv(n)>>)
        ELSE LET s == import_simple(h, a, b.val)
             IN  IF s.out.tag # "Ok" THEN Ret(s.out, <<LoadEv(n)>> \o s.ev)
                 ELSE Ret(Ok(data(s.out.val)), <<LoadEv(n)>> \o s.ev)

Format_import_swallow(h, a, n, src) ==
    LET b == with_context(load(src, n), ErrorSource)
    IN  IF b.tag = "Panic" THEN Ret(b, <<LoadEv(n)>>)
        ELSE LET s == import_simple(h, a, IF b.tag = "Ok" THEN b.val ELSE <<>>)
             IN  IF b.tag = "Err" THEN Ret(b, <<LoadEv(n)>> \o s.ev)
                 ELSE IF s.out.tag # "Ok" THEN Ret(s.out, <<LoadEv(n)>> \o s.ev)
                 ELSE Ret(Ok(data(s.out.val)), <<LoadEv(n)>> \o s.ev)

Format_import_retry(h, a, n, src) ==
    LET b1 == with_context(load(src, n), ErrorSource)
        b == IF b1.tag = "Err" THEN with_context(load(src, n), ErrorSource) ELSE b1
        evL == IF b1.tag = "Err" THEN <<LoadEv(n), LoadEv(n)>> ELSE <<LoadEv(n)>>
    IN  IF b.tag # "Ok" THEN Ret(b, evL)
        ELSE LET s == import_simple(h, a, b.val)
             IN  IF s.out.tag # "Ok" THEN Ret(s.out, evL \o s.ev)
                 ELSE Ret(Ok(data(s.out.val)), evL \o s.ev)

\* The default import, lines 71-78: each ? returns the Err at once.
Format_import(h, a, n, src) ==
    LET b == with_context(load(src, n), ErrorSource)
    IN  IF b.tag # "Ok" THEN Ret(b, <<LoadEv(n)>>)
        ELSE LET s == import_simple(h, a, b.val)
             IN  IF s.out.tag # "Ok" THEN Ret(s.out, <<LoadEv(n)>> \o s.ev)
                 ELSE Ret(Ok(data(s.out.val)), <<LoadEv(n)>> \o s.ev)

\* ---------------------------------- impl Format<D> for Box<dyn Format<D>>
Box_Format_name(h, a) == name(h, deref(h, a))

Box_Format_import_simple(h, a, bytes) == import_simple(h, deref(h, a), bytes)

\* Box_Format_import_default: the impl without an import of its own, so that
\* the trait's default body runs on the box.
Box_Format_import_default(h, a, n, src) == Format_import(h, a, n, src)

Box_Format_import(h, a, n, src) == import(h, deref(h, a), n, src)

\* ------------------------ impl Format<D> for Box<dyn SerializableFormat<D>>
Box_SerializableFormat_name(h, a) == name(h, deref(h, a))

Box_SerializableFormat_import_simple(h, a, bytes) == import_simple(h, deref(h, a), bytes)

Box_SerializableFormat_import(h, a, n, src) == import(h, deref(h, a), n, src)

\* ------------------------------------------------------- method dispatch
name(h, a) ==
    CASE h[a].tag = "box" -> Box_Format_name(h, a)
      [] h[a].tag = "sbox" -> Box_SerializableFormat_name(h, a)
      [] OTHER -> Impl_name(h[a])

import_simple(h, a, bytes) ==
    LET body == CASE h[a].tag = "box" -> Box_Format_import_simple(h, a, bytes)
                  [] h[a].tag = "sbox" -> Box_SerializableFormat_import_simple(h, a, bytes)
                  [] OverridesImportSimple(h[a]) -> Impl_import_simple(h[a], bytes)
                  [] OTHER -> Format_import_simple(h, a, bytes)
    IN  Ret(body.out, <<SimpleEv(a, bytes)>> \o body.ev)

import(h, a, n, src) ==
    CASE h[a].tag = "box" -> Box_Format_import(h, a, n, src)
      [] h[a].tag = "sbox" -> Box_SerializableFormat_import(h, a, n, src)
      [] OverridesImport(h[a]) -> Impl_import(h[a], n, src)
      [] OTHER -> Format_import(h, a, n, src)

\* ------------------------------------------------------------------ Clone
\* clone(h, a, s) clones the value at a into the arena s and returns the new
\* heap and the address of the clone.  clone_trait_object! gives a boxed
\* trait object the Clone that clones the value behind the box into a new box.
RECURSIVE clone(_, _, _)

Impl_clone(h, a, s) == [h |-> [h EXCEPT ![Alloc(h, s)] = h[a]], a |-> Alloc(h, s)]

\* Box_Format_clone_shallow: a clone that copies the pointer.
Box_Format_clone_shallow(h, a, s) == [h |-> [h EXCEPT ![Alloc(h, s)] = h[a]], a |-> Alloc(h, s)]

Box_Format_clone(h, a, s) ==
    LET r == clone(h, deref(h, a), s)
        n == Alloc(r.h, s)
    IN  [h |-> [r.h EXCEPT ![n] = BoxCell("box", r.a)], a |-> n]

Box_SerializableFormat_clone(h, a, s) ==
    LET r == clone(h, deref(h, a), s)
        n == Alloc(r.h, s)
    IN  [h |-> [r.h EXCEPT ![n] = BoxCell("sbox", r.a)], a |-> n]

clone(h, a, s) ==
    CASE h[a].tag = "box" -> Box_Format_clone(h, a, s)
      [] h[a].tag = "sbox" -> Box_SerializableFormat_clone(h, a, s)
      [] OTHER -> Impl_clone(h, a, s)

\* ------------------------------------------------------------------ state
\* heap: the cells; roots: the values the program holds; clones: the pairs
\* <<original, clone>> among them; last: the last call, its inputs, its outcome
\* and the calls it made; halted: a panic has ended the program.
VARIABLES heap, roots, clones, last, halted

vars == <<heap, roots, clones, last, halted>>

Call(op, a, n, b, res, r, k) ==
    [op |-> op, target |-> a, name |-> n, bytes |-> b, res |-> res, out |-> r.out, ev |-> r.ev, n |-> k]

NoRes == [tag |-> "none"]

NoRet == Ret(NoRes, <<>>)

NoCall == Call("none", Null, "", <<>>, NoRes, NoRet, 0)

Init ==
    /\ heap = [a \in Addr |-> FreeCell]
    /\ roots = {}
    /\ clones = {}
    /\ last = NoCall
    /\ halted = FALSE

\* The format is constructed: any implementation, with any options.  Every
\* other value the program holds is a clone of it or a handle around one.
New ==
    /\ ~halted
    /\ Used(heap) = {}
    /\ \E k \in Kinds, o \in Opts :
          LET n == Alloc(heap, NewSlot(heap))
          IN  /\ heap' = [heap EXCEPT ![n] = Concrete(k, o)]
              /\ roots' = roots \cup {n}
    /\ last' = NoCall
    /\ UNCHANGED <<clones, halted>>

\* A format is moved into a type-erased handle, Box<dyn Format<D>> ("box") or
\* Box<dyn SerializableFormat<D>> ("sbox"); a Box<dyn Format<D>> is not a
\* SerializableFormat, so it cannot go into an "sbox".
BoxUp ==
    /\ ~halted
    /\ Cardinality(Used(heap)) < MaxCells
    /\ \E a \in roots, t \in {"box", "sbox"} :
          /\ t = "sbox" => heap[a].tag # "box"
          /\ LET n == Alloc(heap, a[1])
             IN  /\ heap' = [heap EXCEPT ![n] = BoxCell(t, a)]
                 /\ roots' = (roots \ {a}) \cup {n}
                 /\ clones' = {p \in clones : a \notin {p[1], p[2]}}
    /\ last' = NoCall
    /\ UNCHANGED halted

CloneFormat ==
    /\ ~halted
    /\ FreeSlots(heap) # {}
    /\ \E a \in roots :
          /\ Cardinality(Used(heap)) + Cardinality(Cells(heap, a)) <= MaxCells
          /\ LET r == clone(heap, a, NewSlot(heap))
             IN  /\ heap' = r.h
                 /\ roots' = roots \cup {r.a}
                 /\ clones' = clones \cup {<<a, r.a>>}
    /\ last' = NoCall
    /\ UNCHANGED halted

CallName ==
    /\ ~halted
    /\ \E a \in roots :
          last' = Call("name", a, "", <<>>, NoRes, Ret(Ok(name(heap, a)), <<>>), 0)
    /\ UNCHANGED <<heap, roots, clones, halted>>

CallImportSimple ==
    /\ ~halted
    /\ \E a \in roots, b \in Bytes :
          LET r == import_simple(heap, a, b)
          IN  /\ last' = Call("import_simple", a, "", b, NoRes, r, 0)
              /\ halted' = (r.out.tag = "Panic")
    /\ UNCHANGED <<heap, roots, clones>>

CallImport ==
    /\ ~halted
    /\ \E a \in roots, n \in Names, res \in LoadOutcomes :
          LET src == Resolving(n, res)
              r == import(heap, a, n, src)
          IN  /\ last' = Call("import", a, n, <<>>, load(src, n), r, 0)
              /\ halted' = (r.out.tag = "Panic")
    /\ UNCHANGED <<heap, roots, clones>>

\* The Data of a successful import is handed to process; a Loading result is
\* handed to process again.
Pending ==
    IF last.op = "import" /\ last.out.tag = "Ok" THEN {last.out.val.data}
    ELSE IF last.op = "process" /\ last.out.tag = "Ok" /\ last.out.val.tag = "Loading" /\ last.n < MaxCalls
         THEN {last.out.val.val}
    ELSE {}

CallProcess ==
    /\ ~halted
    /\ \E d \in Pending :
          last' = Call("process", Null, "", d, NoRes, Ret(process(d), <<>>),
                       IF last.op = "process" THEN last.n + 1 ELSE 1)
    /\ UNCHANGED <<heap, roots, clones, halted>>

Next ==
    \/ New
    \/ BoxUp
    \/ CloneFormat
    \/ CallName
    \/ CallImportSimple
    \/ CallImport
    \/ CallProcess

Spec == Init /\ [][Next]_vars

\* ---------------------------------------------------------------- claims
Loads(ev) == {i \in DOMAIN ev : ev[i].call = "load"}

Simples(ev) == {i \in DOMAIN ev : ev[i].call = "import_simple"}

\* The last call was import on a concrete format that does not override it.
DefaultImportCall ==
    /\ last.op = "import"
    /\ heap[last.target].tag = "concrete"
    /\ ~OverridesImport(heap[last.target])

\* What import_simple of the called format gives on the bytes the source resolved.
Decoded == import_simple(heap, last.target, last.res.val).out

\* C1: when the byte-source resolves the name to bytes B and import_simple(B)
\* is Ok(d), the default import returns Ok(FormatValue) whose only field, data,
\* is d, and the bytes handed to import_simple are exactly B.
C1_ImportWrapsData ==
    (DefaultImportCall /\ last.res.tag = "Ok" /\ Decoded.tag = "Ok") =>
        /\ last.out.tag = "Ok"
        /\ DOMAIN last.out.val = {"data"}
        /\ last.out.val.data = Decoded.val
        /\ \A i \in Simples(last.ev) : last.ev[i].bytes = last.res.val

C1_Witness ==
    /\ DefaultImportCall
    /\ last.res.tag = "Ok"
    /\ last.res.val # <<>>
    /\ last.out.tag = "Ok"

\* C2: when the byte-source fails to resolve the name, the default import
\* returns an error of the Source category and import_simple is not invoked.
C2_LoadFailureIsSourceError ==
    (DefaultImportCall /\ last.res.tag = "Err") =>
        /\ last.out.tag = "Err"
        /\ Head(last.out.err) = ErrorSource
        /\ Simples(last.ev) = {}

C2_Witness ==
    /\ DefaultImportCall
    /\ OverridesImportSimple(heap[last.target])
    /\ last.res.tag = "Err"
    /\ last.out.tag = "Err"

\* C3: the blanket process returns Ok(Loaded(data)) with the data unchanged,
\* never Loading and never an error, so a load is finished by its first process
\* call: nothing is left to hand to process again.
C3_ProcessLoadsAtOnce ==
    last.op = "process" =>
        /\ last.out = Ok(Loaded(last.bytes))
        /\ last.n = 1
        /\ Pending = {}

C3_Witness ==
    /\ last.op = "process"
    /\ last.bytes # <<>>
    /\ last.out.tag = "Ok"
    /\ last.out.val.tag = "Loaded"

\* C4: name, import_simple and import on a type-erased handle give, for every
\* input, the outcome of the same call on the concrete format it wraps, and
\* import on the handle makes the calls the concrete format's import makes: no
\* import_simple is invoked when the concrete format overrides import.
C4_HandleForwards ==
    (last.op \in {"name", "import_simple", "import"} /\ IsBox(heap[last.target])) =>
        LET c == Innermost(heap, last.target)
            src == Resolving(last.name, last.res)
        IN  /\ last.op = "name" => last.out = Ok(name(heap, c))
            /\ last.op = "import_simple" => last.out = import_simple(heap, c, last.bytes).out
            /\ last.op = "import" =>
                  /\ last.out = import(heap, c, last.name, src).out
                  /\ last.ev = import(heap, c, last.name, src).ev
                  /\ OverridesImport(heap[c]) => Simples(last.ev) = {}

C4_Witness ==
    /\ last.op = "import"
    /\ heap[last.target].tag = "box"
    /\ heap[deref(heap, last.target)].tag = "sbox"
    /\ heap[Innermost(heap, last.target)].kind = "Full"
    /\ last.out.tag = "Ok"

\* C5: when the byte-source fails with error e, the error the default import
\* returns has the category Source on top and e, whole, as its cause.
C5_SourceErrorWrapsCause ==
    (DefaultImportCall /\ last.res.tag = "Err") =>
        /\ last.out.tag = "Err"
        /\ Head(last.out.err) = ErrorSource
        /\ Tail(last.out.err) = last.res.err
        /\ Head(last.out.err) # Head(last.res.err)

C5_Witness ==
    /\ DefaultImportCall
    /\ last.res = Err(<<"NotFound">>)
    /\ last.out.tag = "Err"

\* C6: import_simple on a format that does not override it panics with the
\* diagnostic and returns neither Ok nor Err; the default import of a format
\* that overrides neither method panics whenever the source resolves the name
\* and never returns a FormatValue.
C6_UnimplementedHalts ==
    /\ (last.op = "import_simple" /\ ~OverridesImportSimple(heap[Innermost(heap, last.target)])) =>
          /\ last.out = Panic(UnimplementedMsg)
          /\ halted
    /\ (DefaultImportCall /\ ~OverridesImportSimple(heap[last.target])) =>
          /\ last.out.tag # "Ok"
          /\ last.res.tag = "Ok" => (last.out = Panic(UnimplementedMsg) /\ halted)

C6_Witness ==
    /\ DefaultImportCall
    /\ heap[last.target].kind = "Neither"
    /\ last.res.tag = "Ok"
    /\ last.out.tag = "Panic"
    /\ halted

\* C7: when the source resolves the name and import_simple returns error e, the
\* default import returns exactly e, not a Source error, and no FormatValue.
C7_DecodeErrorAsIs ==
    (DefaultImportCall /\ last.res.tag = "Ok" /\ Decoded.tag = "Err") =>
        /\ last.out = Decoded
        /\ Head(last.out.err) # ErrorSource

C7_Witness ==
    /\ DefaultImportCall
    /\ last.res.tag = "Ok"
    /\ last.out = Err(<<"Decode">>)

C10_NoRetryNoSwallow ==
    DefaultImportCall =>
        /\ Loads(last.ev) = {1}
        /\ last.ev[1].name = last.name
        /\ Cardinality(Simples(last.ev)) <= 1
        /\ Simples(last.ev) # {} => (last.res.tag = "Ok" /\ Simples(last.ev) = {2})
        /\ last.res.tag = "Ok" => Simples(last.ev) = {2}
        /\ last.res.tag # "Ok" => (Len(last.ev) = 1 /\ last.out.tag = last.res.tag)
        /\ (last.res.tag = "Ok" /\ Decoded.tag # "Ok") => last.out = Decoded
        /\ last.out.tag = "Ok" => (last.res.tag = "Ok" /\ Decoded.tag = "Ok")

C10_Witness ==
    /\ DefaultImportCall
    /\ last.name = "missing.png"
    /\ last.res.tag = "Err"
    /\ Len(last.ev) = 1

====
